---------------------------- MODULE Spec2Model ----------------------------
(***************************************************************************)
(* A model of go-pff, a reader for Personal Folder Files (PST/OST/PAB).    *)
(*                                                                         *)
(* The state is the file on disk, the PFF reader value, and the position   *)
(* of the one operation in progress: Parser.Parse, GetRootFolder,          *)
(* GetSubFolders, GetLocalDescriptors or a direct FindBTreeNode call, with *)
(* the recursion of FindBTreeNode kept as an explicit stack of frames.     *)
(*                                                                         *)
(* Go values are modelled as follows.                                      *)
(*  - A byte is a number in 0..255.                                        *)
(*  - A Go int that may hold a 64-bit quantity (an identifier, a file      *)
(*    offset) is a pair [hi, lo] of 32-bit limbs, value hi * 2^32 + lo.    *)
(*    The modelled files keep every limb below 2^31.                       *)
(*  - A []byte is (backing array, low index, length); the backing array    *)
(*    is the buffer one PFF.Read call filled, named by that call's offset  *)
(*    and size.  Its capacity is the rest of the backing array, as in Go.  *)
(*  - An error is a string, "nil" for no error; a run-time panic is a      *)
(*    string that starts with "panic".                                     *)
(***************************************************************************)
EXTENDS Integers, Sequences, FiniteSets, TLC

VARIABLES
    file,      \* which file lies at pff.Filepath: its bytes are Disk[file]
    pff,       \* the PFF value: [Filepath, FormatType]
    op,        \* the operation in progress and its arguments
    pc,        \* where the operation in progress stands
    stack,     \* the frames of FindBTreeNode, innermost last
    ret,       \* what the FindBTreeNode frame that returned last returned
    out,       \* what the last finished operation gave its caller
    reads,     \* the PFF.Read calls (size, offset) of the operation so far
    memo,      \* the first finished FindBTreeNode call and its result
    header,    \* the header bytes handed to the header functions
    hres       \* what the header function applied last returned

vars == <<file, pff, op, pc, stack, ret, out, reads, memo, header, hres>>

-----------------------------------------------------------------------------
(* Bounds of the model. *)

\* FindBTreeNode frames the model follows before it stops a runaway recursion.
MaxDepth == 8

-----------------------------------------------------------------------------
(* Errors, integers, bytes. *)

NoErr == "nil"

PanicSlice == "panic: slice bounds out of range"

PanicIndex == "panic: index out of range"

IsPanic(e) == e \in {PanicSlice, PanicIndex}

W(h, l) == [hi |-> h, lo |-> l]

W0 == W(0, 0)

PlusW(w, k) == W(w.hi, w.lo + k)

Byte == 0..255

\* binary.LittleEndian.Uint16 / Uint32 / Uint64 over a sequence of bytes
Uint16(b) == b[1] + 256 * b[2]

Uint32(b) == b[1] + 256 * (b[2] + 256 * (b[3] + 256 * b[4]))

Uint64(b) == W(Uint32(SubSeq(b, 5, 8)), Uint32(SubSeq(b, 1, 4)))

\* the bytes a writer of the format lays down for a value
LE(v, w) == [i \in 1..w |-> (v \div (256 ^ (i - 1))) % 256]

LE64(w) == LE(w.lo, 4) \o LE(w.hi, 4)

Put(off, bs) == [o \in off..(off + Len(bs) - 1) |-> bs[o - off + 1]]

Zeros(n) == [i \in 1..n |-> 0]

Chars(s) ==
    CASE s = "!BDN" -> <<33, 66, 68, 78>>
      [] s = "SM" -> <<83, 77>>
      [] s = "SO" -> <<83, 79>>
      [] s = "AB" -> <<65, 66>>
      [] OTHER -> <<88, 88>>

-----------------------------------------------------------------------------
(* The file and PFF.Read. *)

\* The file is [exists, len, data]: data gives the bytes that are not zero.
FileByte(f, o) == IF o \in DOMAIN f.data THEN f.data[o] ELSE 0

NilBuf == [off |-> 0, n |-> 0, isnil |-> TRUE]

\* PFF.Read as it would be if one handle were kept open and Seek were
\* relative to where the last read ended (whence 1, not 0)
ReadMutant(f, outputBufferSize, offset) ==
    LET last == IF reads = <<>> THEN 0
                ELSE reads[Len(reads)].off.lo + reads[Len(reads)].n
        at == [hi |-> offset.hi, lo |-> offset.lo + last]
    IN  IF ~f.exists
        THEN [err |-> "open: no such file", buf |-> NilBuf]
        ELSE IF outputBufferSize > 0 /\ (at.hi # 0 \/ at.lo >= f.len)
        THEN [err |-> "EOF", buf |-> NilBuf]
        ELSE [err |-> NoErr,
              buf |-> [off |-> at.lo, n |-> outputBufferSize, isnil |-> FALSE]]

\* PFF.Read: open the file, make a zeroed buffer, seek, read once, close.
\* A read that starts at or past the end of the file fails with EOF; a read
\* that starts inside the file succeeds whatever it could fill.
Read(f, outputBufferSize, offset) ==
    IF ~f.exists
    THEN [err |-> "open: no such file", buf |-> NilBuf]
    ELSE IF outputBufferSize > 0 /\ (offset.hi # 0 \/ offset.lo >= f.len)
    THEN [err |-> "EOF", buf |-> NilBuf]
    ELSE [err |-> NoErr,
          buf |-> [off |-> offset.lo, n |-> outputBufferSize, isnil |-> FALSE]]

\* byte k of the buffer a Read returned: the file's byte, or the zero that
\* make() left where the file had ended
BufByte(f, buf, k) ==
    IF buf.off + k < f.len THEN FileByte(f, buf.off + k) ELSE 0

\* the read a call makes, as the log keeps it
ReadRec(n, offset) == [n |-> n, off |-> offset]

\* the handles a Read call leaves open: none when os.Open fails; one
\* when Seek or Read fails, for those paths return without Close; none
\* after Close
HandlesLeft(f, outputBufferSize, offset) ==
    IF ~f.exists THEN 0
    ELSE IF Read(f, outputBufferSize, offset).err # NoErr THEN 1
    ELSE 0

(* Slices. *)

NilSlice == [off |-> 0, n |-> 0, lo |-> 0, len |-> 0, isnil |-> TRUE]

Whole(buf) ==
    [off |-> buf.off, n |-> buf.n, lo |-> 0, len |-> buf.n, isnil |-> buf.isnil]

Cap(s) == s.n - s.lo

\* s[a:b] is in range when 0 <= a <= b <= cap(s)
SliceOK(s, a, b) == 0 <= a /\ a <= b /\ b <= Cap(s)

Sub(s, a, b) == [s EXCEPT !.lo = s.lo + a, !.len = b - a]

SliceBytes(f, s) ==
    [i \in 1..s.len |-> BufByte(f, [off |-> s.off, n |-> s.n], s.lo + i - 1)]

-----------------------------------------------------------------------------
(* The header: src/unnamed/part_000. *)

ContentTypePST == "PST"

ContentTypeOST == "OST"

ContentTypePAB == "PAB"

FormatType32 == "32-bit"

FormatType64 == "64-bit"

FormatType64With4k == "64-bit-with-4k"

EncryptionTypeNone == "none"

EncryptionTypePermute == "permute"

EncryptionTypeCyclic == "cyclic"

\* the header is the result of Read(24, 0)
GetHeader(f) == Read(f, 24, W0)

HeaderBytes(f) == SliceBytes(f, Whole(GetHeader(f).buf))

\* IsValidSignature as it would be if it compared three bytes, not four
IsValidSignatureMutant(hdr) ==
    Len(hdr) >= 3 /\ SubSeq(hdr, 1, 3) = <<33, 66, 68>>

IsValidSignature(hdr) ==
    Len(hdr) >= 4 /\ SubSeq(hdr, 1, 4) = Chars("!BDN")

GetContentType(hdr) ==
    LET contentType == SubSeq(hdr, 9, 10)
    IN  IF contentType = Chars("SM") THEN [val |-> ContentTypePST, err |-> NoErr]
        ELSE IF contentType = Chars("SO") THEN [val |-> ContentTypeOST, err |-> NoErr]
        ELSE IF contentType = Chars("AB") THEN [val |-> ContentTypePAB, err |-> NoErr]
        ELSE [val |-> "", err |-> "unrecognized content type"]

GetFormatTypeMutant(hdr) ==
    LET formatType == Uint16(SubSeq(hdr, 11, 12))
    IN  IF formatType = 14 \/ formatType = 15
        THEN [val |-> FormatType32, err |-> NoErr]
        ELSE IF formatType = 21 \/ formatType = 23 \/ formatType = 22
        THEN [val |-> FormatType64, err |-> NoErr]
        ELSE IF formatType = 36
        THEN [val |-> FormatType64With4k, err |-> NoErr]
        ELSE [val |-> "", err |-> "failed to get format type"]

GetFormatType(hdr) ==
    LET formatType == Uint16(SubSeq(hdr, 11, 12))
    IN  IF formatType = 14 \/ formatType = 15
        THEN [val |-> FormatType32, err |-> NoErr]
        ELSE IF formatType = 21 \/ formatType = 23
        THEN [val |-> FormatType64, err |-> NoErr]
        ELSE IF formatType = 36
        THEN [val |-> FormatType64With4k, err |-> NoErr]
        ELSE [val |-> "", err |-> "failed to get format type"]

\* where GetEncryptionType reads, or <<>> when it reads nothing
EncryptionReads(formatType) ==
    IF formatType = FormatType64 \/ formatType = FormatType64With4k
    THEN <<ReadRec(1, W(0, 513))>>
    ELSE IF formatType = FormatType32 THEN <<ReadRec(1, W(0, 461))>>
    ELSE <<>>

GetEncryptionType(f, formatType) ==
    IF EncryptionReads(formatType) = <<>>
    THEN [val |-> "", err |-> "unsupported format type"]
    ELSE LET r == Read(f, 1, EncryptionReads(formatType)[1].off)
             encryptionType == BufByte(f, r.buf, 0)
         IN  IF r.err # NoErr THEN [val |-> "", err |-> r.err]
             ELSE IF encryptionType = 0 THEN [val |-> EncryptionTypeNone, err |-> NoErr]
             ELSE IF encryptionType = 1 THEN [val |-> EncryptionTypePermute, err |-> NoErr]
             ELSE IF encryptionType = 2 THEN [val |-> EncryptionTypeCyclic, err |-> NoErr]
             ELSE [val |-> "", err |-> "unsupported encryption type"]

-----------------------------------------------------------------------------
(* B-tree pages: src/pkg/btree.go. *)

Unsupported == "unsupported format type"

NewBTreeNode(btreeNodeStartOffset) == [StartOffset |-> btreeNodeStartOffset]

NewBTreeNodeEntry(identifier, data) == [Identifier |-> identifier, Data |-> data]

\* BTreeNodeEntry{}: identifier 0 and no data
ZeroEntry == NewBTreeNodeEntry(W0, NilSlice)

\* a field read from bytes a..b of an entry's data, as a 64-bit or a 32-bit
\* little-endian integer; the slice expression panics when b is past cap(data)
EntryField(f, data, a, b) ==
    IF ~SliceOK(data, a, b) THEN [val |-> W0, err |-> PanicSlice]
    ELSE [val |-> IF b - a = 8 THEN Uint64(SliceBytes(f, Sub(data, a, b)))
                  ELSE W(0, Uint32(SliceBytes(f, Sub(data, a, b)))),
          err |-> NoErr]

GetLocalDescriptorsIdentifier(f, btreeNodeEntry, formatType) ==
    IF formatType = FormatType64 \/ formatType = FormatType64With4k
    THEN EntryField(f, btreeNodeEntry.Data, 16, 24)
    ELSE IF formatType = FormatType32
    THEN EntryField(f, btreeNodeEntry.Data, 8, 12)
    ELSE [val |-> W0, err |-> Unsupported]

GetDataIdentifier(f, btreeNodeEntry, formatType) ==
    IF formatType = FormatType64 \/ formatType = FormatType64With4k
    THEN EntryField(f, btreeNodeEntry.Data, 8, 16)
    ELSE IF formatType = FormatType32
    THEN EntryField(f, btreeNodeEntry.Data, 4, 8)
    ELSE [val |-> W0, err |-> Unsupported]

GetFileOffset(f, btreeNodeEntry, formatType) ==
    IF formatType = FormatType64 \/ formatType = FormatType64With4k
    THEN EntryField(f, btreeNodeEntry.Data, 8, 16)
    ELSE IF formatType = FormatType32
    THEN EntryField(f, btreeNodeEntry.Data, 4, 8)
    ELSE [val |-> W0, err |-> Unsupported]

\* the read that fetches a tree's root offset from the header
NodeBTreeRead(formatType) ==
    IF formatType = FormatType64 \/ formatType = FormatType64With4k
    THEN <<ReadRec(8, W(0, 224))>>
    ELSE IF formatType = FormatType32 THEN <<ReadRec(4, W(0, 188))>>
    ELSE <<>>

BlockBTreeRead(formatType) ==
    IF formatType = FormatType64 \/ formatType = FormatType64With4k
    THEN <<ReadRec(8, W(0, 240))>>
    ELSE IF formatType = FormatType32 THEN <<ReadRec(4, W(0, 196))>>
    ELSE <<>>

\* the root a header read yields: the offset as a 64-bit or 32-bit integer
RootFrom(f, rds) ==
    IF rds = <<>> THEN [val |-> NewBTreeNode(W0), err |-> Unsupported]
    ELSE LET r == Read(f, rds[1].n, rds[1].off)
         IN  IF r.err # NoErr THEN [val |-> NewBTreeNode(W0), err |-> r.err]
             ELSE [val |-> NewBTreeNode(
                              IF rds[1].n = 8
                              THEN Uint64(SliceBytes(f, Whole(r.buf)))
                              ELSE W(0, Uint32(SliceBytes(f, Whole(r.buf))))),
                   err |-> NoErr]

GetNodeBTree(f, formatType) == RootFrom(f, NodeBTreeRead(formatType))

GetBlockBTree(f, formatType) == RootFrom(f, BlockBTreeRead(formatType))

\* Where each field of the page footer lies, and how many bytes are read.
EntriesArea(formatType) ==
    CASE formatType = FormatType64 -> 488
      [] formatType = FormatType64With4k -> 4056
      [] formatType = FormatType32 -> 496
      [] OTHER -> 0

EntryCountField(formatType) ==
    CASE formatType = FormatType64 -> [n |-> 1, at |-> 488]
      [] formatType = FormatType64With4k -> [n |-> 2, at |-> 4056]
      [] formatType = FormatType32 -> [n |-> 1, at |-> 496]
      [] OTHER -> [n |-> 0, at |-> 0]

EntrySizeField(formatType) ==
    CASE formatType = FormatType64 -> [n |-> 1, at |-> 490]
      [] formatType = FormatType64With4k -> [n |-> 1, at |-> 4060]
      [] formatType = FormatType32 -> [n |-> 1, at |-> 498]
      [] OTHER -> [n |-> 0, at |-> 0]

LevelField(formatType) ==
    CASE formatType = FormatType64 -> [n |-> 1, at |-> 491]
      [] formatType = FormatType64With4k -> [n |-> 1, at |-> 4061]
      [] formatType = FormatType32 -> [n |-> 1, at |-> 499]
      [] OTHER -> [n |-> 0, at |-> 0]

PageTypeField(formatType) ==
    CASE formatType = FormatType64 -> [n |-> 1, at |-> 496]
      [] formatType = FormatType64With4k -> [n |-> 1, at |-> 4072]
      [] formatType = FormatType32 -> [n |-> 1, at |-> 500]
      [] OTHER -> [n |-> 0, at |-> 0]

FieldRead(fld, btreeNode) == ReadRec(fld.n, PlusW(btreeNode.StartOffset, fld.at))

\* a footer field: one byte widened with a zero byte, or two bytes
GetField(f, fld, btreeNode) ==
    IF fld.n = 0 THEN [val |-> -1, err |-> Unsupported]
    ELSE LET r == Read(f, fld.n, FieldRead(fld, btreeNode).off)
         IN  IF r.err # NoErr THEN [val |-> -1, err |-> r.err]
             ELSE [val |-> Uint16(<<BufByte(f, r.buf, 0),
                                    IF fld.n = 2 THEN BufByte(f, r.buf, 1) ELSE 0>>),
                   err |-> NoErr]

GetBTreeNodeEntryCount(f, formatType, btreeNode) ==
    GetField(f, EntryCountField(formatType), btreeNode)

GetBTreeNodeEntrySize(f, formatType, btreeNode) ==
    GetField(f, EntrySizeField(formatType), btreeNode)

GetBTreeNodeLevel(f, formatType, btreeNode) ==
    GetField(f, LevelField(formatType), btreeNode)

GetBTreeNodePageType(f, formatType, btreeNode) ==
    GetField(f, PageTypeField(formatType), btreeNode)

GetBTreeBranchNodeEntryOffset(f, formatType, nodeEntry) ==
    IF formatType = FormatType64 \/ formatType = FormatType64With4k
    THEN EntryField(f, nodeEntry, 16, 24)
    ELSE IF formatType = FormatType32
    THEN EntryField(f, nodeEntry, 8, 12)
    ELSE [val |-> W0, err |-> Unsupported]

\* the first error of a sequence of results, "nil" when there is none
FirstErr(rs) ==
    IF \A i \in 1..Len(rs) : rs[i].err = NoErr THEN NoErr
    ELSE rs[CHOOSE i \in 1..Len(rs) :
                /\ rs[i].err # NoErr
                /\ \A j \in 1..(i - 1) : rs[j].err = NoErr].err

\* the reads of a plan that are made: all of them, or those up to the first
\* that fails
ReadsMade(f, plan) ==
    LET bad == {i \in 1..Len(plan) : Read(f, plan[i].n, plan[i].off).err # NoErr}
    IN  IF bad = {} THEN plan
        ELSE SubSeq(plan, 1, CHOOSE i \in bad : \A j \in bad : i <= j)

\* the reads GetBTreeNodeEntries makes, in order
EntriesReads(f, formatType, btreeNode) ==
    IF EntriesArea(formatType) = 0 THEN <<>>
    ELSE ReadsMade(f, << ReadRec(EntriesArea(formatType), btreeNode.StartOffset),
                         FieldRead(EntryCountField(formatType), btreeNode),
                         FieldRead(EntrySizeField(formatType), btreeNode),
                         FieldRead(LevelField(formatType), btreeNode),
                         FieldRead(PageTypeField(formatType), btreeNode) >>)

\* GetBTreeNodeEntries: the entries area, the footer fields, then one entry
\* per declared count, cut out of the area at i * entrySize.  The page type
\* is read and dropped.  The identifier is the Uint32 of nodeEntry[:8].
GetBTreeNodeEntries(f, formatType, btreeNode) ==
    IF EntriesArea(formatType) = 0
    THEN [entries |-> <<>>, err |-> Unsupported]
    ELSE
    LET nodeEntries == Read(f, EntriesArea(formatType), btreeNode.StartOffset)
        nodeEntryCount == GetBTreeNodeEntryCount(f, formatType, btreeNode)
        nodeEntrySize == GetBTreeNodeEntrySize(f, formatType, btreeNode)
        nodeLevel == GetBTreeNodeLevel(f, formatType, btreeNode)
        pageType == GetBTreeNodePageType(f, formatType, btreeNode)
        err == FirstErr(<<nodeEntries, nodeEntryCount, nodeEntrySize,
                          nodeLevel, pageType>>)
        area == Whole(nodeEntries.buf)
        lo(i) == i * nodeEntrySize.val
        nodeEntry(i) == Sub(area, lo(i), lo(i) + nodeEntrySize.val)
        InRange(i) == /\ SliceOK(area, lo(i), lo(i) + nodeEntrySize.val)
                      /\ SliceOK(nodeEntry(i), 0, 8)
        identifier(i) == Uint32(SliceBytes(f, Sub(nodeEntry(i), 0, 8)))
    IN  IF err # NoErr THEN [entries |-> <<>>, err |-> err]
        ELSE IF \E i \in 0..(nodeEntryCount.val - 1) : ~InRange(i)
        THEN [entries |-> <<>>, err |-> PanicSlice]
        ELSE [entries |-> [i \in 1..nodeEntryCount.val |->
                              NewBTreeNodeEntry(W(0, identifier(i - 1)),
                                                nodeEntry(i - 1))],
              err |-> NoErr]

-----------------------------------------------------------------------------
(* The files the model reads.  Each is laid out as the format documents    *)
(* say (PFF.pdf sections 2 and 5): a header, a node b-tree of one branch   *)
(* page over two leaf pages, a block b-tree of one leaf page, and the      *)
(* blocks.  A variant changes one thing of the well-formed file.           *)

Profiles == {FormatType32, FormatType64, FormatType64With4k}

WellFormedVariants == {"good", "sepkey", "badsig", "badct", "badenc"}

Variants == WellFormedVariants \cup
            {"badfmt", "badroot", "eof", "short", "overflow", "smallsize",
             "wrongtype", "cycle", "missing"}

Wide(prof) == prof # FormatType32

PageSize(prof) == IF prof = FormatType64With4k THEN 4096 ELSE 512

\* page k of the file, k = 1 (node root), 2, 3 (node leaves), 4 (block root)
PageBase(prof, k) == IF prof = FormatType64With4k THEN 4096 * k ELSE 512 * (k + 1)

BlockBase(prof, j) == PageBase(prof, 5) + 64 * j

FileLen(prof) == BlockBase(prof, 6)

\* an identifier or offset as the profile stores it: 8 bytes, or 4
Field(prof, w) == IF Wide(prof) THEN LE64(w) ELSE LE(w.lo, 4)

\* branch entry: key, back pointer, file offset of the child page
BranchEntry(prof, key, child) ==
    Field(prof, key) \o Field(prof, W0) \o Field(prof, child)

\* node leaf entry: identifier, data block id, local descriptors block id,
\* parent identifier
NodeLeafEntry(prof, e) ==
    Field(prof, e.key) \o Field(prof, W(0, e.data)) \o Field(prof, W(0, e.ld))
        \o LE(0, 4) \o (IF Wide(prof) THEN Zeros(4) ELSE <<>>)

\* block leaf entry: block id, file offset, size, reference count
BlockLeafEntry(prof, e) ==
    Field(prof, e.key) \o Field(prof, W(0, e.off)) \o LE(60, 2) \o LE(1, 2)
        \o (IF Wide(prof) THEN Zeros(4) ELSE <<>>)

BranchEntrySize(prof) == IF Wide(prof) THEN 24 ELSE 12

NodeLeafEntrySize(prof) == IF Wide(prof) THEN 32 ELSE 16

BlockLeafEntrySize(prof) == IF Wide(prof) THEN 24 ELSE 12

\* the footer of a page: entry count, entry size, level, page type
Footer(prof, base, count, size, level, ptype) ==
    CASE prof = FormatType64 ->
           Put(base + 488, <<count % 256>>) @@ Put(base + 490, <<size>>)
             @@ Put(base + 491, <<level>>) @@ Put(base + 496, <<ptype, ptype>>)
      [] prof = FormatType64With4k ->
           Put(base + 4056, LE(count, 2)) @@ Put(base + 4060, <<size>>)
             @@ Put(base + 4061, <<level>>) @@ Put(base + 4072, <<ptype, ptype>>)
      [] prof = FormatType32 ->
           Put(base + 496, <<count % 256>>) @@ Put(base + 498, <<size>>)
             @@ Put(base + 499, <<level>>) @@ Put(base + 500, <<ptype, ptype>>)

RECURSIVE Concat(_)
Concat(ss) == IF ss = <<>> THEN <<>> ELSE Head(ss) \o Concat(Tail(ss))

\* a page: its entries packed from the page base, then the footer
Page(prof, base, entries, count, size, level, ptype) ==
    Put(base, Concat(entries)) @@ Footer(prof, base, count, size, level, ptype)

\* the page type byte of a tree's pages: 0x81 node b-tree, 0x80 block b-tree
PageTypeOf(tree) == IF tree = "NBT" THEN 129 ELSE 128

\* the node leaf entries of the well-formed tree
NodeLeafA == << [key |-> W(0, 33), data |-> 16, ld |-> 0],
                [key |-> W(0, 97), data |-> 16, ld |-> 21],
                [key |-> W(0, 118), data |-> 32, ld |-> 0],
                [key |-> W(0, 129), data |-> 32, ld |-> 44],
                [key |-> W(0, 290), data |-> 36, ld |-> 0] >>

NodeLeafB(prof) ==
    << [key |-> W(0, 299), data |-> 16, ld |-> 0],
       [key |-> W(0, 301), data |-> 33, ld |-> 0],
       [key |-> W(0, 609), data |-> 16, ld |-> 40] >>
    \o (IF Wide(prof)
        THEN << [key |-> W(1, 5), data |-> 16, ld |-> 0],
                [key |-> W(1, 97), data |-> 32, ld |-> 0] >>
        ELSE <<>>)

\* the block leaf entries: block j lies at BlockBase(prof, j)
BlockLeaf(prof) ==
    << [key |-> W(0, 16), off |-> BlockBase(prof, 0)],
       [key |-> W(0, 20), off |-> BlockBase(prof, 1)],
       [key |-> W(0, 32), off |-> BlockBase(prof, 2)],
       [key |-> W(0, 36), off |-> BlockBase(prof, 3)],
       [key |-> W(0, 40), off |-> BlockBase(prof, 4)],
       [key |-> W(0, 44), off |-> BlockBase(prof, 5)] >>

Keys(es) == {es[i].key : i \in 1..Len(es)}

\* the keys the node leaves of a file hold
StoredNodeKeys(prof) == Keys(NodeLeafA) \cup Keys(NodeLeafB(prof))

StoredBlockKeys(prof) == Keys(BlockLeaf(prof))

\* the keys of the node root's two branch entries
BranchKeys(variant) ==
    << IF variant = "sepkey" THEN W(0, 5) ELSE W(0, 33), W(0, 299) >>

FormatCode(prof, variant) ==
    IF variant = "badfmt" THEN 99
    ELSE CASE prof = FormatType32 -> 14
           [] prof = FormatType64 -> 23
           [] prof = FormatType64With4k -> 36

\* where the header says the node b-tree's root page lies
NodeRootOffset(prof, variant) ==
    IF variant = "badroot" THEN FileLen(prof) + PageSize(prof)
    ELSE PageBase(prof, 1)

HeaderBlock(prof, variant) ==
    Put(0, IF variant = "badsig" THEN <<33, 66, 68, 77>> ELSE Chars("!BDN"))
      @@ Put(8, IF variant = "badct" THEN Chars("XX") ELSE Chars("SM"))
      @@ Put(10, LE(FormatCode(prof, variant), 2))
      @@ (IF Wide(prof)
          THEN Put(224, LE64(W(0, NodeRootOffset(prof, variant))))
                 @@ Put(240, LE64(W(0, PageBase(prof, 4))))
                 @@ Put(513, <<IF variant = "badenc" THEN 7 ELSE 1>>)
          ELSE Put(188, LE(NodeRootOffset(prof, variant), 4))
                 @@ Put(196, LE(PageBase(prof, 4), 4))
                 @@ Put(461, <<IF variant = "badenc" THEN 7 ELSE 1>>))

\* where the second branch entry of the node root points
SecondChild(prof, variant) ==
    CASE variant = "eof" -> FileLen(prof) + PageSize(prof)
      [] variant = "short" -> FileLen(prof) - 8
      [] variant = "cycle" -> PageBase(prof, 1)
      [] OTHER -> PageBase(prof, 3)

NodeRootPage(prof, variant) ==
    Page(prof, PageBase(prof, 1),
         << BranchEntry(prof, BranchKeys(variant)[1], W(0, PageBase(prof, 2))),
            BranchEntry(prof, BranchKeys(variant)[2],
                        W(0, SecondChild(prof, variant))) >>,
         2, BranchEntrySize(prof), 1, PageTypeOf("NBT"))

NodeLeafAPage(prof) ==
    Page(prof, PageBase(prof, 2),
         [i \in 1..Len(NodeLeafA) |-> NodeLeafEntry(prof, NodeLeafA[i])],
         Len(NodeLeafA), NodeLeafEntrySize(prof), 0, PageTypeOf("NBT"))

NodeLeafBPage(prof, variant) ==
    Page(prof, PageBase(prof, 3),
         [i \in 1..Len(NodeLeafB(prof)) |-> NodeLeafEntry(prof, NodeLeafB(prof)[i])],
         IF variant = "overflow" THEN 255
         ELSE IF variant = "smallsize" THEN 2 ELSE Len(NodeLeafB(prof)),
         IF variant = "smallsize" THEN 4 ELSE NodeLeafEntrySize(prof),
         0,
         IF variant = "wrongtype" THEN PageTypeOf("BBT") ELSE PageTypeOf("NBT"))

BlockRootPage(prof) ==
    Page(prof, PageBase(prof, 4),
         [i \in 1..Len(BlockLeaf(prof)) |-> BlockLeafEntry(prof, BlockLeaf(prof)[i])],
         Len(BlockLeaf(prof)), BlockLeafEntrySize(prof), 0, PageTypeOf("BBT"))

\* blocks 1 and 4 are local descriptors (signature 2); block 5 is not
Blocks(prof) ==
    Put(BlockBase(prof, 0), <<1, 1, 1, 0>>)
      @@ Put(BlockBase(prof, 1), <<2, 0, 1, 0>>)
      @@ Put(BlockBase(prof, 2), <<7, 7, 7, 7>>)
      @@ Put(BlockBase(prof, 3), <<9, 9, 9, 9>>)
      @@ Put(BlockBase(prof, 4), <<2, 0, 2, 0>>)
      @@ Put(BlockBase(prof, 5), <<5, 0, 1, 0>>)

BuildFile(prof, variant) ==
    [name |-> <<prof, variant>>,
     exists |-> variant # "missing",
     len |-> IF variant = "missing" THEN 0 ELSE FileLen(prof),
     data |-> IF variant = "missing" THEN Put(0, <<>>)
              ELSE HeaderBlock(prof, variant) @@ NodeRootPage(prof, variant)
                     @@ NodeLeafAPage(prof) @@ NodeLeafBPage(prof, variant)
                     @@ BlockRootPage(prof) @@ Blocks(prof)]

FileNames == Profiles \X Variants

RECURSIVE FilesNamed(_)
FilesNamed(names) ==
    IF names = {} THEN [nm \in {} |-> 0]
    ELSE LET nm == CHOOSE x \in names : TRUE
         IN  (nm :> BuildFile(nm[1], nm[2])) @@ FilesNamed(names \ {nm})

\* the bytes of every modelled file
Disk == FilesNamed(FileNames)

-----------------------------------------------------------------------------
(* The operations. *)

\* pff.New: the reader value; nothing sets FormatType
New(filepath) == [Filepath |-> filepath, FormatType |-> ""]

\* no header function has been applied to `header`
NoResult == [fn |-> "none", val |-> "", err |-> NoErr]

NodeBTreeIdentifierRootFolder == 290

NoOp == [name |-> "none", formatType |-> "", tree |-> "", identifier |-> W0,
         phase |-> 0, logged |-> <<>>, arg |-> ZeroEntry]

NoRet == [entry |-> ZeroEntry, err |-> NoErr]

NoOut == [kind |-> "none", entry |-> ZeroEntry, err |-> NoErr]

Returned(e, err) == [kind |-> "returned", entry |-> e, err |-> err]

Panicked(p) == [kind |-> "panic", entry |-> ZeroEntry, err |-> p]

\* log.Fatalf: the message is logged and the process exits
Exited(msg) == [kind |-> "exit", entry |-> ZeroEntry, err |-> msg]

\* stage 0: no direct FindBTreeNode call has ended; 1: the first one has,
\* and res is what it gave; 2: another operation has ended since; 3: the
\* remembered lookup has been made again after that
NoMemo == [stage |-> 0, tree |-> "", identifier |-> W0, res |-> NoOut]

NewFrame(btreeNode) ==
    [node |-> btreeNode, entries |-> <<>>, level |-> 0, i |-> 1, st |-> "enter"]

\* the format type a caller of the library passes: the one the header gives
CallerFormat(f) ==
    IF GetHeader(f).err # NoErr THEN FormatType64
    ELSE GetFormatType(HeaderBytes(f)).val

\* the identifiers callers look up
NodeIds == {W(0, 0), W(0, 5), W(0, 33), W(0, 97), W(0, 129), W(0, 290),
            W(0, 301), W(0, 609), W(1, 5), W(1, 97)}

BlockIds == {W(0, 0), W(0, 20), W(0, 21), W(0, 44)}

Top == stack[Len(stack)]

SetTop(fr) == [stack EXCEPT ![Len(stack)] = fr]

SameLookup(name) ==
    name = "FindBTreeNode" /\ memo.tree = op.tree
                           /\ memo.identifier = op.identifier

\* the operation ends and hands o to its caller; the first direct
\* FindBTreeNode call that ends is remembered
Finish(name, o) ==
    /\ pc' = "idle"
    /\ stack' = <<>>
    /\ out' = o
    /\ memo' = CASE memo.stage = 0 /\ name = "FindBTreeNode" ->
                       [stage |-> 1, tree |-> op.tree,
                        identifier |-> op.identifier, res |-> o]
                 [] memo.stage = 1 /\ ~SameLookup(name) ->
                       [memo EXCEPT !.stage = 2]
                 [] memo.stage = 2 /\ SameLookup(name) ->
                       [memo EXCEPT !.stage = 3]
                 [] OTHER -> memo

\* FindBTreeNode is called on btreeNode: a frame is pushed
Call(btreeNode) ==
    /\ pc' = "walk"
    /\ stack' = <<NewFrame(btreeNode)>>
    /\ out' = NoOut
    /\ UNCHANGED memo

\* the innermost FindBTreeNode frame returns (e, err)
Return(e, err) ==
    /\ stack' = SubSeq(stack, 1, Len(stack) - 1)
    /\ ret' = [entry |-> e, err |-> err]
    /\ pc' = IF Len(stack) = 1 THEN "back" ELSE "walk"
    /\ UNCHANGED <<out, memo>>

Fixed == <<file, pff, header, hres>>

(* FindBTreeNode: src/pkg/btree.go:388. *)

\* lines 389-399: the page's entries and its level are read
FindEnter ==
    /\ pc = "walk" /\ Top.st = "enter"
    /\ LET es == GetBTreeNodeEntries(Disk[file], op.formatType, Top.node)
           lvl == GetBTreeNodeLevel(Disk[file], op.formatType, Top.node)
       IN  /\ reads' = reads \o EntriesReads(Disk[file], op.formatType, Top.node)
                  \o (IF es.err = NoErr
                      THEN <<FieldRead(LevelField(op.formatType), Top.node)>>
                      ELSE <<>>)
           /\ IF IsPanic(es.err)
              THEN Finish(op.name, Panicked(es.err)) /\ UNCHANGED ret
              ELSE IF es.err # NoErr THEN Return(ZeroEntry, es.err)
              ELSE IF lvl.err # NoErr THEN Return(ZeroEntry, lvl.err)
              ELSE /\ stack' = SetTop([Top EXCEPT !.entries = es.entries,
                                                  !.level = lvl.val,
                                                  !.st = "loop"])
                   /\ UNCHANGED <<pc, ret, out, memo>>
    /\ UNCHANGED <<Fixed, op>>

\* lines 405-421: one turn of the branch loop up to the recursive call
FindBranch ==
    /\ pc = "walk" /\ Top.st = "loop" /\ Top.level > 0
    /\ Top.i <= Len(Top.entries)
    /\ \/ Len(stack) < MaxDepth
       \/ Top.entries[Top.i].Identifier = op.identifier
    /\ LET btreeNodeEntry == Top.entries[Top.i]
           off == GetBTreeBranchNodeEntryOffset(Disk[file], op.formatType,
                                                btreeNodeEntry.Data)
       IN  IF btreeNodeEntry.Identifier = op.identifier
           THEN Return(btreeNodeEntry, NoErr)
           ELSE IF IsPanic(off.err)
           THEN Finish(op.name, Panicked(off.err)) /\ UNCHANGED ret
           ELSE IF off.err # NoErr THEN Return(ZeroEntry, off.err)
           ELSE /\ stack' = Append(SetTop([Top EXCEPT !.st = "wait"]),
                                   NewFrame(NewBTreeNode(off.val)))
                /\ UNCHANGED <<pc, ret, out, memo>>
    /\ UNCHANGED <<Fixed, op, reads>>

\* lines 423-429: the recursive call has returned into the branch loop
FindResume ==
    /\ pc = "walk" /\ Top.st = "wait"
    /\ IF ret.err # NoErr THEN Return(ZeroEntry, NoErr)
       ELSE IF ret.entry.Identifier = op.identifier THEN Return(ret.entry, NoErr)
       ELSE /\ stack' = SetTop([Top EXCEPT !.i = Top.i + 1, !.st = "loop"])
            /\ UNCHANGED <<pc, ret, out, memo>>
    /\ UNCHANGED <<Fixed, op, reads>>

\* line 444, reached from the branch loop: every entry has been tried
FindBranchEnd ==
    /\ pc = "walk" /\ Top.st = "loop" /\ Top.level > 0
    /\ Top.i > Len(Top.entries)
    /\ Return(ZeroEntry, NoErr)
    /\ UNCHANGED <<Fixed, op, reads>>

\* lines 435-444: the leaf loop
FindLeaf ==
    /\ pc = "walk" /\ Top.st = "loop" /\ Top.level = 0
    /\ LET hits == {i \in 1..Len(Top.entries) :
                        Top.entries[i].Identifier = op.identifier}
       IN  IF hits = {} THEN Return(ZeroEntry, NoErr)
           ELSE Return(Top.entries[CHOOSE i \in hits : \A j \in hits : i <= j],
                       NoErr)
    /\ UNCHANGED <<Fixed, op, reads>>

(* A direct call: the caller fetches a tree's root and looks a key up. *)

StartOp(o) ==
    /\ pc = "idle"
    /\ op' = o
    /\ ret' = NoRet

FindStart(tree, identifier) ==
    /\ StartOp([NoOp EXCEPT !.name = "FindBTreeNode",
                            !.formatType = CallerFormat(Disk[file]),
                            !.tree = tree, !.identifier = identifier])
    /\ LET rds == IF tree = "NBT" THEN NodeBTreeRead(CallerFormat(Disk[file]))
                  ELSE BlockBTreeRead(CallerFormat(Disk[file]))
           root == RootFrom(Disk[file], rds)
       IN  /\ reads' = ReadsMade(Disk[file], rds)
           /\ IF root.err # NoErr
              THEN /\ pc' = "idle" /\ stack' = <<>>
                   /\ out' = Returned(ZeroEntry, root.err)
                   /\ UNCHANGED memo
              ELSE /\ Call(root.val)
    /\ UNCHANGED Fixed

FindBack ==
    /\ pc = "back" /\ op.name = "FindBTreeNode"
    /\ Finish(op.name, Returned(ret.entry, ret.err))
    /\ UNCHANGED <<Fixed, op, ret, reads>>

(* Parser.Parse: src/pkg/parser.go:14. *)

\* what log.Errorf writes for a failed step; nothing for a step that worked
Logged(msg, r) == IF r.err # NoErr THEN <<msg>> ELSE <<>>

\* lines 15-61: the header is read and checked; a missing header or a wrong
\* signature ends the process, every later failure is logged and passed
\* over; then the node b-tree is searched for identifier 97
ParseStart ==
    /\ LET hdr == GetHeader(Disk[file])
           bytes == HeaderBytes(Disk[file])
           contentType == GetContentType(bytes)
           formatType == GetFormatType(bytes)
           encryptionType == GetEncryptionType(Disk[file], formatType.val)
           nodeBTree == GetNodeBTree(Disk[file], formatType.val)
           o == [NoOp EXCEPT !.name = "Parse", !.tree = "NBT",
                             !.identifier = W(0, 97)]
       IN  IF hdr.err # NoErr
           THEN /\ StartOp(o)
                /\ reads' = <<ReadRec(24, W0)>>
                /\ Finish("Parse", Exited("Failed to get PFF header"))
           ELSE IF ~IsValidSignature(bytes)
           THEN /\ StartOp(o)
                /\ reads' = <<ReadRec(24, W0)>>
                /\ Finish("Parse", Exited("Invalid Personal Folder File."))
           ELSE /\ StartOp([o EXCEPT
                      !.formatType = formatType.val,
                      !.logged =
                          Logged("Failed to get content type", contentType)
                          \o Logged("Failed to get format type", formatType)
                          \o Logged("Failed to get encryption type", encryptionType)
                          \o Logged("Failed to get node b-tree", nodeBTree)])
                /\ reads' = <<ReadRec(24, W0)>>
                       \o ReadsMade(Disk[file], EncryptionReads(formatType.val))
                       \o ReadsMade(Disk[file], NodeBTreeRead(formatType.val))
                /\ Call(nodeBTree.val)
    /\ UNCHANGED Fixed

\* lines 63-67
ParseBack ==
    /\ pc = "back" /\ op.name = "Parse"
    /\ op' = [op EXCEPT !.logged =
                 op.logged \o Logged("Failed to find b-tree node entry", ret)]
    /\ Finish(op.name, Returned(ret.entry, NoErr))
    /\ UNCHANGED <<Fixed, ret, reads>>

(* GetRootFolder: src/unnamed/part_002:23. *)

GetRootFolderStart ==
    /\ StartOp([NoOp EXCEPT !.name = "GetRootFolder",
                            !.formatType = CallerFormat(Disk[file]),
                            !.tree = "NBT",
                            !.identifier = W(0, NodeBTreeIdentifierRootFolder)])
    /\ LET nodeBTree == GetNodeBTree(Disk[file], CallerFormat(Disk[file]))
       IN  /\ reads' = ReadsMade(Disk[file], NodeBTreeRead(CallerFormat(Disk[file])))
           /\ IF nodeBTree.err # NoErr
              THEN /\ pc' = "idle" /\ stack' = <<>>
                   /\ out' = Returned(ZeroEntry, nodeBTree.err)
                   /\ UNCHANGED memo
              ELSE Call(nodeBTree.val)
    /\ UNCHANGED Fixed

\* lines 30-32: the folder is built from the entry; the lookup's error is
\* dropped
GetRootFolderBack ==
    /\ pc = "back" /\ op.name = "GetRootFolder"
    /\ Finish(op.name, Returned(ret.entry, NoErr))
    /\ UNCHANGED <<Fixed, op, ret, reads>>

\* an entry a caller holds: the one the last lookup handed back
Holds ==
    /\ pc = "idle" /\ out.kind = "returned" /\ out.err = NoErr
    /\ \/ op.name = "GetRootFolder"
       \/ op.name = "FindBTreeNode" /\ op.tree = "NBT"

(* GetSubFolders: src/unnamed/part_002:35. *)

\* lines 36-44: the sub-folders identifier is looked up in the node b-tree
GetSubFoldersStart ==
    /\ Holds
    /\ StartOp([NoOp EXCEPT !.name = "GetSubFolders",
                            !.formatType = CallerFormat(Disk[file]),
                            !.tree = "NBT",
                            !.identifier = PlusW(out.entry.Identifier, 11),
                            !.phase = 1,
                            !.arg = out.entry])
    /\ LET nodeBTree == GetNodeBTree(Disk[file], CallerFormat(Disk[file]))
       IN  /\ reads' = ReadsMade(Disk[file], NodeBTreeRead(CallerFormat(Disk[file])))
           /\ IF nodeBTree.err # NoErr
              THEN /\ pc' = "idle" /\ stack' = <<>>
                   /\ out' = Returned(ZeroEntry, nodeBTree.err)
                   /\ UNCHANGED memo
              ELSE Call(nodeBTree.val)
    /\ UNCHANGED Fixed

\* lines 46-62: the node's data identifier is looked up in the block b-tree
GetSubFoldersData ==
    /\ pc = "back" /\ op.name = "GetSubFolders" /\ op.phase = 1
    /\ LET subFoldersNodeDataIdentifier ==
               GetDataIdentifier(Disk[file], ret.entry, op.formatType)
           blockBTree == GetBlockBTree(Disk[file], op.formatType)
       IN  IF ret.err # NoErr
           THEN /\ Finish(op.name, Returned(ZeroEntry, ret.err))
                /\ UNCHANGED <<op, reads>>
           ELSE IF IsPanic(subFoldersNodeDataIdentifier.err)
           THEN /\ Finish(op.name, Panicked(subFoldersNodeDataIdentifier.err))
                /\ UNCHANGED <<op, reads>>
           ELSE IF subFoldersNodeDataIdentifier.err # NoErr
           THEN /\ Finish(op.name, Returned(ZeroEntry, subFoldersNodeDataIdentifier.err))
                /\ UNCHANGED <<op, reads>>
           ELSE /\ reads' = reads \o ReadsMade(Disk[file], BlockBTreeRead(op.formatType))
                /\ IF blockBTree.err # NoErr
                   THEN /\ Finish(op.name, Returned(ZeroEntry, blockBTree.err))
                        /\ UNCHANGED op
                   ELSE /\ op' = [op EXCEPT !.tree = "BBT", !.phase = 2,
                                    !.identifier = subFoldersNodeDataIdentifier.val]
                        /\ Call(blockBTree.val)
    /\ UNCHANGED <<Fixed, ret>>

\* lines 64-77: one byte of the block is read, and logged
GetSubFoldersBack ==
    /\ pc = "back" /\ op.name = "GetSubFolders" /\ op.phase = 2
    /\ LET subFoldersDataNodeFileOffset == GetFileOffset(Disk[file], ret.entry, op.formatType)
           at == PlusW(subFoldersDataNodeFileOffset.val, 2)
           n == Read(Disk[file], 1, at)
       IN  IF ret.err # NoErr
           THEN Finish(op.name, Returned(ZeroEntry, ret.err)) /\ UNCHANGED reads
           ELSE IF IsPanic(subFoldersDataNodeFileOffset.err)
           THEN /\ Finish(op.name, Panicked(subFoldersDataNodeFileOffset.err))
                /\ UNCHANGED reads
           ELSE /\ reads' = Append(reads, ReadRec(1, at))
                /\ IF n.err # NoErr
                   THEN Finish(op.name, Panicked(PanicIndex))
                   ELSE Finish(op.name, Returned(ZeroEntry, NoErr))
    /\ UNCHANGED <<Fixed, op, ret>>

(* GetLocalDescriptors: src/pkg/btree.go:579. *)

\* lines 580-592: the entry's local descriptors identifier is looked up in
\* the block b-tree
GetLocalDescriptorsStart ==
    /\ Holds
    /\ LET localDescriptorsIdentifier ==
               GetLocalDescriptorsIdentifier(Disk[file], out.entry, CallerFormat(Disk[file]))
           blockBTree == GetBlockBTree(Disk[file], CallerFormat(Disk[file]))
           o == [NoOp EXCEPT !.name = "GetLocalDescriptors",
                             !.formatType = CallerFormat(Disk[file]),
                             !.tree = "BBT",
                             !.identifier = localDescriptorsIdentifier.val,
                             !.arg = out.entry]
       IN  /\ StartOp(o)
           /\ IF IsPanic(localDescriptorsIdentifier.err)
              THEN /\ Finish(o.name, Panicked(localDescriptorsIdentifier.err))
                   /\ reads' = <<>>
              ELSE IF localDescriptorsIdentifier.err # NoErr
              THEN /\ Finish(o.name, Returned(ZeroEntry, localDescriptorsIdentifier.err))
                   /\ reads' = <<>>
              ELSE /\ reads' = ReadsMade(Disk[file], BlockBTreeRead(CallerFormat(Disk[file])))
                   /\ IF blockBTree.err # NoErr
                      THEN Finish(o.name, Returned(ZeroEntry, blockBTree.err))
                      ELSE Call(blockBTree.val)
    /\ UNCHANGED Fixed

\* the read GetLocalDescriptorsSignature makes
SignatureRead(localDescriptors) == ReadRec(1, localDescriptors.StartOffset)

NewLocalDescriptors(startOffset) == [StartOffset |-> startOffset]

\* GetLocalDescriptorsSignature as it would be if it read the byte after
\* the block's first
GetLocalDescriptorsSignatureMutant(f, localDescriptors) ==
    LET signature == Read(f, 1, PlusW(localDescriptors.StartOffset, 1))
    IN  IF signature.err # NoErr THEN [val |-> -1, err |-> signature.err]
        ELSE [val |-> Uint16(<<BufByte(f, signature.buf, 0), 0>>), err |-> NoErr]

GetLocalDescriptorsSignature(f, localDescriptors) ==
    LET signature == Read(f, 1, localDescriptors.StartOffset)
    IN  IF signature.err # NoErr THEN [val |-> -1, err |-> signature.err]
        ELSE [val |-> Uint16(<<BufByte(f, signature.buf, 0), 0>>), err |-> NoErr]

\* lines 594-622: the block's offset is taken from the entry found and the
\* block's first byte must be 2
GetLocalDescriptorsBack ==
    /\ pc = "back" /\ op.name = "GetLocalDescriptors"
    /\ LET localDescriptorsOffset == GetFileOffset(Disk[file], ret.entry, op.formatType)
           localDescriptors == NewLocalDescriptors(localDescriptorsOffset.val)
           localDescriptorsSignature ==
               GetLocalDescriptorsSignature(Disk[file], localDescriptors)
       IN  IF ret.err # NoErr
           THEN Finish(op.name, Returned(ZeroEntry, ret.err)) /\ UNCHANGED reads
           ELSE IF IsPanic(localDescriptorsOffset.err)
           THEN Finish(op.name, Panicked(localDescriptorsOffset.err)) /\ UNCHANGED reads
           ELSE IF localDescriptorsOffset.err # NoErr
           THEN /\ Finish(op.name, Returned(ZeroEntry, localDescriptorsOffset.err))
                /\ UNCHANGED reads
           ELSE /\ reads' = Append(reads, SignatureRead(localDescriptors))
                /\ IF localDescriptorsSignature.err # NoErr
                   THEN Finish(op.name, Returned(ZeroEntry, localDescriptorsSignature.err))
                   ELSE IF localDescriptorsSignature.val # 2
                   THEN Finish(op.name, Returned(ZeroEntry,
                                   "invalid local descriptors signature"))
                   ELSE Finish(op.name, Returned(ZeroEntry, NoErr))
    /\ UNCHANGED <<Fixed, op, ret>>

-----------------------------------------------------------------------------
(* The specification of the reader. *)

Init ==
    /\ file \in FileNames
    /\ pff = New("data/enron.pst")
    /\ op = NoOp
    /\ pc = "idle"
    /\ stack = <<>>
    /\ ret = NoRet
    /\ out = NoOut
    /\ reads = <<>>
    /\ memo = NoMemo
    /\ header = <<>>
    /\ hres = NoResult

Next ==
    \/ \E identifier \in NodeIds : FindStart("NBT", identifier)
    \/ \E identifier \in BlockIds : FindStart("BBT", identifier)
    \/ FindEnter
    \/ FindBranch
    \/ FindResume
    \/ FindBranchEnd
    \/ FindLeaf
    \/ FindBack
    \/ ParseStart
    \/ ParseBack
    \/ GetRootFolderStart
    \/ GetRootFolderBack
    \/ GetSubFoldersStart
    \/ GetSubFoldersData
    \/ GetSubFoldersBack
    \/ GetLocalDescriptorsStart
    \/ GetLocalDescriptorsBack

Spec == Init /\ [][Next]_vars

-----------------------------------------------------------------------------
(* The header functions on every format code: GetFormatType is applied to  *)
(* a 24-byte header whose bytes 10 and 11 range over all values.           *)

BaseHeader == Chars("!BDN") \o Zeros(4) \o Chars("SM") \o Zeros(14)

InitHeader ==
    /\ file = <<FormatType64, "good">>
    /\ pff = New("data/enron.pst")
    /\ op = NoOp
    /\ pc = "idle"
    /\ stack = <<>>
    /\ ret = NoRet
    /\ out = NoOut
    /\ reads = <<>>
    /\ memo = NoMemo
    /\ header \in {[BaseHeader EXCEPT ![11] = lo, ![12] = hi] : lo \in Byte, hi \in Byte}
    /\ hres = NoResult

CallGetFormatType ==
    /\ hres.fn = "none"
    /\ hres' = [fn |-> "GetFormatType"] @@ GetFormatType(header)
    /\ UNCHANGED <<file, pff, op, pc, stack, ret, out, reads, memo, header>>

NextHeader == CallGetFormatType

SpecHeader == InitHeader /\ [][NextHeader]_vars

-----------------------------------------------------------------------------
(* The footer and branch entry readers, on one page.  src/unnamed/part_001 *)
(* holds its own versions of two of them.                                  *)

\* part_001:169: the entry size; on 32-bit two bytes are read at +498
EntrySizeField_001(formatType) ==
    CASE formatType = FormatType64 -> [n |-> 1, at |-> 490]
      [] formatType = FormatType64With4k -> [n |-> 1, at |-> 4060]
      [] formatType = FormatType32 -> [n |-> 2, at |-> 498]
      [] OTHER -> [n |-> 0, at |-> 0]

GetBTreeNodeEntrySize_001(f, formatType, btreeNode) ==
    GetField(f, EntrySizeField_001(formatType), btreeNode)

\* part_001:268: the child offset; -1 and no error on 64-bit-with-4k and on
\* 32-bit
GetBTreeBranchNodeEntryOffset_001(f, formatType, nodeEntry) ==
    IF formatType = FormatType64
    THEN EntryField(f, nodeEntry, 16, 24)
    ELSE IF formatType = FormatType64With4k \/ formatType = FormatType32
    THEN [val |-> W(0, -1), err |-> NoErr]
    ELSE [val |-> W0, err |-> Unsupported]

\* the bytes of a page's first entry, followed by its entry size byte and
\* its level byte
PageBytes(prof) ==
    {Field(prof, key) \o Field(prof, back) \o Field(prof, child) \o <<size, level>> :
        key \in {W(0, 5), W(0, 299)}, back \in {W0, W(0, 7)},
        child \in {W(0, 1536), W(0, 2048)},
        size \in {0, 12, 16, 24, 32, 255}, level \in {0, 1, 2}}

\* the one-page file that holds the bytes of `header`
PageFile ==
    LET prof == file[1]
        n == BranchEntrySize(prof)
    IN  [name |-> <<prof, "page">>, exists |-> TRUE, len |-> PageSize(prof),
         data |-> Put(0, SubSeq(header, 1, n))
                    @@ Footer(prof, 0, 1, header[n + 1], header[n + 2],
                              PageTypeOf("NBT"))]

\* the first entry as GetBTreeNodeEntries cuts it out of the entries area
FirstEntry ==
    Sub(Whole(Read(PageFile, EntriesArea(file[1]), W0).buf),
        0, BranchEntrySize(file[1]))

InitFields ==
    /\ file \in {<<prof, "good">> : prof \in Profiles}
    /\ pff = New("data/enron.pst")
    /\ op = NoOp
    /\ pc = "idle"
    /\ stack = <<>>
    /\ ret = NoRet
    /\ out = NoOut
    /\ reads = <<>>
    /\ memo = NoMemo
    /\ header \in PageBytes(file[1])
    /\ hres = NoResult

Apply(fn, r) ==
    /\ hres.fn = "none"
    /\ hres' = [fn |-> fn, val |-> r.val, err |-> r.err]
    /\ UNCHANGED <<file, pff, op, pc, stack, ret, out, reads, memo, header>>

CallGetBTreeNodeEntrySize ==
    Apply("GetBTreeNodeEntrySize",
          GetBTreeNodeEntrySize(PageFile, file[1], NewBTreeNode(W0)))

CallGetBTreeNodeEntrySize_001 ==
    Apply("GetBTreeNodeEntrySize_001",
          GetBTreeNodeEntrySize_001(PageFile, file[1], NewBTreeNode(W0)))

CallGetBTreeBranchNodeEntryOffset ==
    Apply("GetBTreeBranchNodeEntryOffset",
          GetBTreeBranchNodeEntryOffset(PageFile, file[1], FirstEntry))

CallGetBTreeBranchNodeEntryOffset_001 ==
    Apply("GetBTreeBranchNodeEntryOffset_001",
          GetBTreeBranchNodeEntryOffset_001(PageFile, file[1], FirstEntry))

NextFields ==
    \/ CallGetBTreeNodeEntrySize
    \/ CallGetBTreeNodeEntrySize_001
    \/ CallGetBTreeBranchNodeEntryOffset
    \/ CallGetBTreeBranchNodeEntryOffset_001

SpecFields == InitFields /\ [][NextFields]_vars

-----------------------------------------------------------------------------
(* Properties. *)

Prof == file[1]

Variant == file[2]

\* the operation `name` has ended and handed `out` to its caller
Ended(name) == pc = "idle" /\ op.name = name /\ out.kind # "none"

\* the keys the leaves of a tree of the file hold
StoredKeys(tree) ==
    IF tree = "NBT" THEN StoredNodeKeys(Prof) ELSE StoredBlockKeys(Prof)

\* the keys of the branch entries of a tree of the file
BranchKeySet(tree) ==
    IF tree = "NBT" THEN {BranchKeys(Variant)[1], BranchKeys(Variant)[2]} ELSE {}

\* the outcome is the entry of key k
Found(o, k) ==
    /\ o.kind = "returned" /\ o.err = NoErr
    /\ o.entry.Identifier = k /\ ~o.entry.Data.isnil

\* the outcome is not-found: no error and the entry without data
NotFound(o) == o.kind = "returned" /\ o.err = NoErr /\ o.entry = ZeroEntry

\* a read of the log failed
FailedRead ==
    \E i \in DOMAIN reads : Read(Disk[file], reads[i].n, reads[i].off).err # NoErr

\* the pages the operation has loaded: where it read an entries area
PagesLoaded ==
    {NewBTreeNode(reads[i].off) :
        i \in {j \in DOMAIN reads : reads[j].n = EntriesArea(op.formatType)}}

\* C1: in a well-formed tree, a lookup started at the root succeeds for
\* every key a leaf stores and reports not-found for every key no leaf
\* stores.
C1_FindIsExact ==
    (Ended("FindBTreeNode") /\ Variant \in WellFormedVariants) =>
        IF op.identifier \in StoredKeys(op.tree)
        THEN Found(out, op.identifier)
        ELSE NotFound(out)

\* C2: a lookup of a key that is in no page of the tree ends without an
\* error in the not-found outcome, which carries no entry of the file; this
\* holds for every key, key 0 included.
C2_AbsentIsNotFound ==
    (/\ Ended("FindBTreeNode")
     /\ Variant \in WellFormedVariants
     /\ op.identifier \notin StoredKeys(op.tree) \cup BranchKeySet(op.tree)) =>
        NotFound(out)

\* C3: when a read of a page fails during a lookup, at any depth, the
\* lookup returns an error, and so does GetRootFolder when its lookup
\* failed.
C3_ErrorsPropagate ==
    (/\ \/ Ended("FindBTreeNode")
        \/ Ended("GetRootFolder")
     /\ out.kind = "returned"
     /\ FailedRead) =>
        out.err # NoErr

\* the footer of the page declares more entries than its entries area
\* holds, or entries narrower than a key
BadFooter(f, formatType, btreeNode) ==
    LET nodeEntryCount == GetBTreeNodeEntryCount(f, formatType, btreeNode)
        nodeEntrySize == GetBTreeNodeEntrySize(f, formatType, btreeNode)
    IN  /\ EntriesReads(f, formatType, btreeNode)
             = << ReadRec(EntriesArea(formatType), btreeNode.StartOffset),
                  FieldRead(EntryCountField(formatType), btreeNode),
                  FieldRead(EntrySizeField(formatType), btreeNode),
                  FieldRead(LevelField(formatType), btreeNode),
                  FieldRead(PageTypeField(formatType), btreeNode) >>
        /\ \/ nodeEntryCount.val * nodeEntrySize.val > EntriesArea(formatType)
           \/ nodeEntrySize.val < (IF formatType = FormatType32 THEN 4 ELSE 8)

\* C4: for a page whose declared count times size exceeds the entries
\* area, or whose entry size is below the key width, GetBTreeNodeEntries
\* returns an error and does not panic.
C4_BadFooterIsAnError ==
    (/\ pc = "walk" /\ Top.st = "enter"
     /\ BadFooter(Disk[file], op.formatType, Top.node)) =>
        LET es == GetBTreeNodeEntries(Disk[file], op.formatType, Top.node)
        IN  es.err # NoErr /\ ~IsPanic(es.err)

\* the file is there and its first four bytes are not !BDN
WrongFirstFour ==
    /\ Disk[file].exists
    /\ [i \in 1..4 |-> FileByte(Disk[file], i - 1)] # <<33, 66, 68, 78>>

\* C5: for a file whose first four bytes are not !BDN, Parse ends with the
\* invalid-signature outcome and has read nothing beyond byte 24.
C5_BadSignatureStopsParse ==
    (op.name = "Parse" /\ WrongFirstFour) =>
        /\ pc = "idle" /\ stack = <<>>
        /\ out = Exited("Invalid Personal Folder File.")
        /\ \A i \in DOMAIN reads :
               reads[i].off.hi = 0 /\ reads[i].off.lo + reads[i].n <= 24

C5_Witness ==
    /\ op.name = "Parse" /\ Variant = "badsig"
    /\ out.kind = "exit" /\ reads = <<ReadRec(24, W0)>>

\* the u16 the header carries at bytes 10 and 11
FormatCodeOf(hdr) == hdr[11] + 256 * hdr[12]

\* C6: GetFormatType gives 32-bit for the codes 14 and 15, 64-bit for 21
\* and 23, 64-bit-with-4k for 36, and an error and no format type for every
\* other code.
C6_FormatCodes ==
    hres.fn = "GetFormatType" =>
        LET code == FormatCodeOf(header)
        IN  /\ code \in {14, 15} => hres.val = FormatType32 /\ hres.err = NoErr
            /\ code \in {21, 23} => hres.val = FormatType64 /\ hres.err = NoErr
            /\ code = 36 => hres.val = FormatType64With4k /\ hres.err = NoErr
            /\ code \notin {14, 15, 21, 23, 36} =>
                   hres.val = "" /\ hres.err # NoErr

C6_Witness ==
    /\ hres.fn = "GetFormatType" /\ FormatCodeOf(header) = 36
    /\ hres.val = FormatType64With4k

\* the header carries a content type, a format code or an encryption byte
\* outside its set
UnknownTag ==
    LET f == Disk[file]
        hdr == [i \in 1..24 |-> FileByte(f, i - 1)]
        code == FormatCodeOf(hdr)
        enc == IF code \in {14, 15} THEN FileByte(f, 461) ELSE FileByte(f, 513)
    IN  /\ f.exists
        /\ SubSeq(hdr, 1, 4) = <<33, 66, 68, 78>>
        /\ \/ SubSeq(hdr, 9, 10) \notin {<<83, 77>>, <<83, 79>>, <<65, 66>>}
           \/ code \notin {14, 15, 21, 23, 36}
           \/ enc \notin {0, 1, 2}

\* C7: when the content type, the format code or the encryption byte is
\* outside its set, Parse stops: it reads no b-tree root offset and runs no
\* lookup.
C7_UnknownTagStopsParse ==
    (op.name = "Parse" /\ UnknownTag) =>
        /\ pc = "idle" /\ stack = <<>>
        /\ \A i \in DOMAIN reads :
               reads[i] \notin {ReadRec(8, W(0, 224)), ReadRec(4, W(0, 188))}
        /\ PagesLoaded = {}

\* C8: a lookup that loads a page whose type is not the type of the tree
\* walked fails with an error; it returns no entry.
C8_PageTypeIsVerified ==
    (/\ Ended("FindBTreeNode") /\ out.kind = "returned"
     /\ \E page \in PagesLoaded :
            LET pageType == GetBTreeNodePageType(Disk[file], op.formatType, page)
            IN  pageType.err = NoErr /\ pageType.val # PageTypeOf(op.tree)) =>
        out.err # NoErr

C10_BlockLookupsAreMasked ==
    (/\ op.name \in {"GetLocalDescriptors", "GetSubFolders"}
     /\ op.tree = "BBT" /\ pc = "walk") =>
        op.identifier.lo % 2 = 0

\* the local descriptors identifier the entry handed to GetLocalDescriptors
\* carries is 0
NoLocalDescriptors ==
    /\ op.name = "GetLocalDescriptors"
    /\ op.formatType \in Profiles
    /\ ~op.arg.Data.isnil
    /\ LET at == IF op.formatType = FormatType32 THEN 8 ELSE 16
           width == IF op.formatType = FormatType32 THEN 4 ELSE 8
       IN  \A k \in 0..(width - 1) :
               BufByte(Disk[file], [off |-> op.arg.Data.off, n |-> op.arg.Data.n],
                       op.arg.Data.lo + at + k) = 0

\* C11: for an entry whose local descriptors identifier is 0,
\* GetLocalDescriptors gives the empty result without error: it runs no
\* lookup in the block b-tree, reads no block and does not panic.
C11_NoDescriptorsIsEmpty ==
    NoLocalDescriptors =>
        /\ pc = "idle" /\ stack = <<>>
        /\ out = Returned(ZeroEntry, NoErr)
        /\ PagesLoaded = {}

\* the block b-tree entries whose key is the identifier GetLocalDescriptors
\* looks up, in a file whose block b-tree is read with the file's own format
BlocksLookedUp ==
    IF op.name = "GetLocalDescriptors" /\ op.formatType = Prof
    THEN {BlockLeaf(Prof)[i] :
             i \in {j \in DOMAIN BlockLeaf(Prof) :
                       BlockLeaf(Prof)[j].key = op.identifier}}
    ELSE {}

PageOf(e) == NewBTreeNode(W(0, e.Data.off))

\* C13: an entry FindBTreeNode hands back as found is an entry of a level-0
\* page; an entry of a branch page is never the result.
C13_OnlyLeafEntries ==
    (Ended("FindBTreeNode") /\ Found(out, op.identifier)) =>
        GetBTreeNodeLevel(Disk[file], op.formatType, PageOf(out.entry)).val = 0

\* the number of pages the operation has loaded
PageLoads ==
    Cardinality({i \in DOMAIN reads : reads[i].n = EntriesArea(op.formatType)})

\* the root page of the tree the operation walks
RootOf(tree) ==
    IF tree = "NBT" THEN GetNodeBTree(Disk[file], op.formatType).val
    ELSE GetBlockBTree(Disk[file], op.formatType).val

Less(a, b) == a.hi < b.hi \/ (a.hi = b.hi /\ a.lo < b.lo)

\* C14: in a well-formed tree one lookup loads at most one page per level
\* of the tree, and a lookup of a key below the leftmost branch key loads
\* no child of the root.
C14_OneChildPerLevel ==
    (Ended("FindBTreeNode") /\ Variant \in WellFormedVariants) =>
        /\ PageLoads <=
               GetBTreeNodeLevel(Disk[file], op.formatType, RootOf(op.tree)).val + 1
        /\ (op.tree = "NBT" /\ Less(op.identifier, BranchKeys(Variant)[1])) =>
               PageLoads = 1

\* C15: the recursion of FindBTreeNode is never deeper than the file has
\* pages, also when a branch entry points back at an ancestor page.
C15_DepthWithinPages ==
    Len(stack) * PageSize(Prof) <= Disk[file].len

\* C16: on the 64-bit profiles the entry a lookup hands back as found
\* stores, in its bytes 0..8, the 64-bit key that was asked for.
C16_KeysAre64Bit ==
    (/\ Ended("FindBTreeNode") /\ Found(out, op.identifier)
     /\ op.formatType \in {FormatType64, FormatType64With4k}
     /\ SliceOK(out.entry.Data, 0, 8)) =>
        Uint64(SliceBytes(Disk[file], Sub(out.entry.Data, 0, 8))) = op.identifier

\* C17: the child offset of a branch entry is the integer in the bytes
\* right after the key (8..16 on the 64-bit profiles, 4..8 on 32-bit), on
\* all three profiles, and no -1 is handed back without an error.
C17_OffsetFollowsKey ==
    hres.fn \in {"GetBTreeBranchNodeEntryOffset",
                 "GetBTreeBranchNodeEntryOffset_001"} =>
        /\ hres.err = NoErr
        /\ hres.val # W(0, -1)
        /\ hres.val = IF file[1] = FormatType32
                      THEN W(0, Uint32(SubSeq(header, 5, 8)))
                      ELSE Uint64(SubSeq(header, 9, 16))

\* C18: the entry size is the one byte of the footer's entry size field,
\* on every profile; on 32-bit it is the byte at +498 whatever the level
\* byte at +499 is.
C18_EntrySizeIsOneByte ==
    hres.fn \in {"GetBTreeNodeEntrySize", "GetBTreeNodeEntrySize_001"} =>
        /\ hres.err = NoErr
        /\ hres.val = header[Len(header) - 1]

\* the file holds fewer than n bytes from the read's offset on
ShortOfFile(r) ==
    Disk[file].exists /\ (r.off.hi # 0 \/ r.off.lo + r.n > Disk[file].len)

\* C19: a Read for which the file holds fewer bytes than asked from the
\* offset on returns an error, also when the range starts inside the file;
\* no buffer with an unfilled tail is handed back.
C19_ShortReadsFail ==
    \A i \in DOMAIN reads :
        ShortOfFile(reads[i]) =>
            Read(Disk[file], reads[i].n, reads[i].off).err # NoErr

\* the handles the Read calls of the operation have left open
OpenHandles ==
    Cardinality({i \in DOMAIN reads :
                    HandlesLeft(Disk[file], reads[i].n, reads[i].off) = 1})

\* C20: every handle a Read call opens is closed when the call returns,
\* also when Seek or Read fails: no handle is open after any Read calls.
C20_HandlesAreClosed == OpenHandles = 0

=============================================================================
